---- MODULE Spec2Model ----
(***************************************************************************)
(* A model of src/src/process.rs: the TorProcess supervisor.               *)
(*                                                                         *)
(* launch() spawns the tor child, starts a worker thread that runs         *)
(* parse_tor_stdout on the child's stdout, schedules a one-shot timer that *)
(* sends Err(Timeout), and blocks on the channel both write to.  kill()    *)
(* kills the child held in the `process` field and Drop calls kill().      *)
(*                                                                         *)
(* Log lines are sequences of one-character strings, so that the slicing,  *)
(* the split(' ') and the bootstrap regex are computed as the code         *)
(* computes them.                                                          *)
(***************************************************************************)
EXTENDS Integers, Sequences, FiniteSets, TLC

(***************************************************************************)
(* Bounds of the model.                                                    *)
(***************************************************************************)
\* lines the child writes to its stdout while the worker reads, when launch()
\* is called once
MaxLines == 3
\* calls of launch() on one supervisor, when it is called again
MaxLaunches == 2
\* lines each child writes while the worker reads, when launch() is called again
MaxRelaunchLines == 2
\* lines the child writes before the worker reads them, in the runs that
\* look at the parsing
MaxParseLines == 3
\* calls of tor_cmd, torrc_path, arg and args on one supervisor
MaxBuilderCalls == 3

(***************************************************************************)
(* Text constants of parse_tor_stdout.                                     *)
(***************************************************************************)
\* "May 16 02:50:08.792", the sample whose length is the timestamp width
TimestampSample ==
    <<"M","a","y"," ","1","6"," ","0","2",":","5","0",":","0","8",".","7","9","2">>

timestamp_len == Len(TimestampSample)

TagNotice == <<"[","n","o","t","i","c","e","]">>
TagWarn == <<"[","w","a","r","n","]">>
TagErr == <<"[","e","r","r","]">>
WordBootstrapped == <<"B","o","o","t","s","t","r","a","p","p","e","d">>

\* the literal text the bootstrap regex matches before the digits: "[notice] Bootstrapped "
ReBootstrapHead == TagNotice \o <<" ">> \o WordBootstrapped \o <<" ">>
\* and after them: "%: "
ReBootstrapTail == <<"%", ":", " ">>

Digits == {"0","1","2","3","4","5","6","7","8","9"}

DigitVal(c) ==
    CASE c = "0" -> 0 [] c = "1" -> 1 [] c = "2" -> 2 [] c = "3" -> 3
      [] c = "4" -> 4 [] c = "5" -> 5 [] c = "6" -> 6 [] c = "7" -> 7
      [] c = "8" -> 8 [] c = "9" -> 9

\* largest value of the u8 the percent is parsed into
U8Max == 255

(***************************************************************************)
(* Option values.                                                          *)
(***************************************************************************)
None == [some |-> FALSE, val |-> <<>>]
Some(v) == [some |-> TRUE, val |-> v]

(***************************************************************************)
(* line.split(' ').nth(n)                                                  *)
(***************************************************************************)
\* the positions of the separators of s
Spaces(s) == {i \in 1..Len(s) : s[i] = " "}

\* the k-th smallest member of the set of positions P, 0 for k = 0
KthSmallest(P, k) ==
    IF k = 0 THEN 0 ELSE CHOOSE p \in P : Cardinality({q \in P : q < p}) = k - 1

\* the tokens are the stretches between separators: token n lies between
\* the n-th separator and the next one (or the end)
SplitNth(s, n) ==
    LET sp == Spaces(s)
    IN  IF Cardinality(sp) < n THEN None
        ELSE Some(SubSeq(s,
                         KthSmallest(sp, n) + 1,
                         (IF Cardinality(sp) > n THEN KthSmallest(sp, n + 1)
                                                ELSE Len(s) + 1) - 1))

(***************************************************************************)
(* re_bootstrap.captures(line).name("perc"):                               *)
(*   ^\[notice\] Bootstrapped (?P<perc>[0-9]+)%:                           *)
(***************************************************************************)
RECURSIVE DigitRun(_, _)
\* the number of consecutive digits of s from position i on
DigitRun(s, i) ==
    IF i <= Len(s) /\ s[i] \in Digits THEN 1 + DigitRun(s, i + 1) ELSE 0

ReCapturePerc(line) ==
    LET h == Len(ReBootstrapHead)
        d == DigitRun(line, h + 1)
    IN  IF /\ Len(line) >= h
           /\ SubSeq(line, 1, h) = ReBootstrapHead
           /\ d >= 1
           /\ Len(line) >= h + d + Len(ReBootstrapTail)
           /\ SubSeq(line, h + d + 1, h + d + Len(ReBootstrapTail)) = ReBootstrapTail
        THEN Some(SubSeq(line, h + 1, h + d))
        ELSE None

(***************************************************************************)
(* pc.as_str().parse::<u8>().ok()                                          *)
(***************************************************************************)
RECURSIVE DecimalValue(_, _)
\* the digits read left to right on top of acc; -1 once the value leaves u8
DecimalValue(ds, acc) ==
    IF acc < 0 \/ ds = <<>> THEN acc
    ELSE LET v == acc * 10 + DigitVal(Head(ds))
         IN  DecimalValue(Tail(ds), IF v > U8Max THEN -1 ELSE v)

ParseU8(ds) ==
    LET v == IF ds = <<>> THEN -1 ELSE DecimalValue(ds, 0)
    IN  IF v < 0 THEN None ELSE Some(v)

(***************************************************************************)
(* Results sent over the channel and returned by launch().                 *)
(***************************************************************************)
Result(kind, body, warns) == [kind |-> kind, body |-> body, warnings |-> warns]

OkReader == Result("Ok", <<>>, <<>>)
ErrTimeout == Result("Timeout", <<>>, <<>>)
ErrProcess == Result("Process", <<>>, <<>>)
ErrInvalidLogLine == Result("InvalidLogLine", <<>>, <<>>)
ErrInvalidBootstrapLine(line) == Result("InvalidBootstrapLine", line, <<>>)
ErrTor(line, warns) == Result("Tor", line, warns)
ErrProcessNotStarted == Result("ProcessNotStarted", <<>>, <<>>)
NoResult == Result("none", <<>>, <<>>)

(***************************************************************************)
(* One iteration of the read loop of parse_tor_stdout, on a line read.     *)
(***************************************************************************)
Step(ctl, res, warns) == [ctl |-> ctl, res |-> res, warnings |-> warns]

\* &raw_line[timestamp_len + 1..raw_line.len() - 1] panics when the range
\* starts after its end
SlicePanics(raw_line) == timestamp_len + 1 > Len(raw_line) - 1

\* the same slice, 1-based
LineBody(raw_line) == SubSeq(raw_line, timestamp_len + 2, Len(raw_line) - 1)

\* (a missing percent read as 0)
BootstrapPerc_Lenient(line) ==
    LET c == ReCapturePerc(line)
    IN  IF c.some THEN ParseU8(c.val) ELSE Some(0)

\* captures(line).and_then(name("perc")).and_then(parse::<u8>)
BootstrapPerc(line) ==
    LET c == ReCapturePerc(line)
    IN  IF c.some THEN ParseU8(c.val) ELSE None

\* (a comparison that leaves out equality)
ReachesTarget_Strict(perc, completion_perc) == perc > completion_perc

\* perc >= completion_perc
ReachesTarget(perc, completion_perc) == perc >= completion_perc

\* (a push at the front)
PushWarning_Front(warns, line) == <<line>> \o warns

\* warnings.push(line.to_string())
PushWarning(warns, line) == Append(warns, line)

\* the match on the first token of the line
MatchLine(line, completion_perc, warns) ==
    LET tok0 == SplitNth(line, 0)
    IN  IF tok0 = Some(TagNotice)
        THEN IF SplitNth(line, 1) = Some(WordBootstrapped)
             THEN LET perc == BootstrapPerc(line)
                  IN  IF ~perc.some
                      THEN Step("return", ErrInvalidBootstrapLine(line), warns)
                      ELSE IF ReachesTarget(perc.val, completion_perc)
                           THEN Step("break", OkReader, warns)
                           ELSE Step("continue", NoResult, warns)
             ELSE Step("continue", NoResult, warns)
        ELSE IF tok0 = Some(TagWarn)
             THEN Step("continue", NoResult, PushWarning(warns, line))
        ELSE IF tok0 = Some(TagErr)
             THEN Step("return", ErrTor(line, warns), warns)
        ELSE Step("continue", NoResult, warns)

\* (a length check that is one character off)
TooShort_OffByOne(raw_line) == Len(raw_line) < timestamp_len

\* raw_line.len() < timestamp_len + 1
TooShort(raw_line) == Len(raw_line) < timestamp_len + 1

LineStep(raw_line, completion_perc, warns) ==
    IF TooShort(raw_line)
    THEN Step("return", ErrInvalidLogLine, warns)
    ELSE IF SlicePanics(raw_line)
         THEN Step("panic", NoResult, warns)
         ELSE MatchLine(LineBody(raw_line), completion_perc, warns)

(***************************************************************************)
(* The lines a child may write: raw lines, trailing newline included.      *)
(***************************************************************************)
Stamped(body) == TimestampSample \o <<" ">> \o body \o <<"\n">>

BootstrapBody(digits, rest) ==
    TagNotice \o <<" ">> \o WordBootstrapped \o <<" ">> \o digits \o rest

LineTable == <<
    \* 1: "hi\n", shorter than the timestamp
    <<"h", "i", "\n">>,
    \* 2: the timestamp and a newline, 20 characters
    TimestampSample \o <<"\n">>,
    \* 3: "[notice] Bootstrapped 50%: L"
    Stamped(BootstrapBody(<<"5","0">>, <<"%",":"," ","L">>)),
    \* 4: "[notice] Bootstrapped 100%: D"
    Stamped(BootstrapBody(<<"1","0","0">>, <<"%",":"," ","D">>)),
    \* 5: "[warn] a"
    Stamped(TagWarn \o <<" ","a">>),
    \* 6: "[warn] b"
    Stamped(TagWarn \o <<" ","b">>),
    \* 7: "[err] x"
    Stamped(TagErr \o <<" ","x">>),
    \* 8: "[notice] Opening"
    Stamped(TagNotice \o <<" ","O","p","e","n","i","n","g">>),
    \* 9: "[notice] Bootstrapped XX%: B"
    Stamped(BootstrapBody(<<"X","X">>, <<"%",":"," ","B">>)),
    \* 10: "[notice] Bootstrapped 0%: S"
    Stamped(BootstrapBody(<<"0">>, <<"%",":"," ","S">>)),
    \* 11: "[notice] Bootstrapped 256%: O", a percent that does not fit a u8
    Stamped(BootstrapBody(<<"2","5","6">>, <<"%",":"," ","O">>)),
    \* 12: the timestamp alone, 19 characters
    TimestampSample,
    \* 13: the timestamp, a space and a newline: an empty body
    Stamped(<<>>),
    \* 14: "[notice] Bootstrapped 50%:" without the space the regex wants
    Stamped(BootstrapBody(<<"5","0">>, <<"%",":">>)),
    \* 15: "x", no severity tag
    Stamped(<<"x">>),
    \* 16: "[notice] Bootstrapped %: M", no percent
    Stamped(BootstrapBody(<<>>, <<"%",":"," ","M">>))
>>

Raw(id) == LineTable[id]

\* the lines a child chooses from when launch() is called once ...
RouterLines == {1, 2, 3, 4, 5, 6, 7}
\* ... and when it is called again
RelaunchLines == {2, 4, 7}
\* every line of the table, for the runs that look at the parsing
ParseLines == 1..Len(LineTable)

(***************************************************************************)
(* Values the builder methods are called with.                             *)
(***************************************************************************)
CmdChoices == {"tor", "/opt/tor"}
PathChoices == {"a.rc", "b.rc"}
ArgChoices == {"x", "y"}
ArgsChoices == {<<>>, <<"y", "x">>, <<"x", "x">>}
PercentChoices == {50, 100}
ParsePercents == {0, 100}
TimeoutChoices == {0, 1}

ChildIds == 1..MaxLaunches

\* torrc_path: Option<String>
NoPath == [some |-> FALSE, val |-> ""]

\* stdout: Option<BufReader<ChildStdout>>, the reader over the stdout of child c
NoReader == [some |-> FALSE, child |-> 0]
Reader(c) == [some |-> TRUE, child |-> c]

(***************************************************************************)
(* State.                                                                  *)
(***************************************************************************)
VARIABLES
    \* the fields of TorProcess
    tor_cmd, args, torrc_path, completion_percent, timeout, stdout, process,
    \* the operating system: each child's state, the argument vector of the
    \* last spawn, the lines the current child has written to its stdout pipe
    child, argv, emitted,
    \* launch(): the caller's position, the channel, the value recv() returned
    pc, chan, received,
    \* the timer: its schedule and the seconds elapsed since it was scheduled
    timer, elapsed,
    \* the worker thread running parse_tor_stdout: its position, the lines it
    \* has read, its warnings vector
    mon, rpos, warnings,
    \* what the caller has seen: the number of launch() calls, the child the
    \* last one spawned (0: none), its return value, the return value of the
    \* last kill(), whether drop() let an error escape
    launches, launchChild, outcome, kill_result, raised,
    \* history: every value sent on the channel of the last launch, in order;
    \* the children kill was requested for; whether some launch returned Ok;
    \* the calls of tor_cmd, torrc_path, arg and args made so far, in order
    sent, killSent, everReady, built

cfgVars == <<tor_cmd, args, torrc_path, completion_percent, timeout>>
osVars == <<child, argv, emitted>>
launchVars == <<pc, chan, received, timer, elapsed>>
monVars == <<mon, rpos, warnings>>
seenVars == <<launches, launchChild, outcome, kill_result, raised>>
histVars == <<sent, killSent, everReady, built>>

vars == <<cfgVars, stdout, process, osVars, launchVars, monVars, seenVars, histVars>>

\* TorProcess::new()
Init ==
    /\ tor_cmd = "tor"
    /\ args = <<>>
    /\ torrc_path = NoPath
    /\ completion_percent = 100
    /\ timeout = 0
    /\ stdout = NoReader
    /\ process = 0
    /\ child = [c \in ChildIds |-> "unborn"]
    /\ argv = <<>>
    /\ emitted = <<>>
    /\ pc = "idle"
    /\ chan = <<>>
    /\ received = NoResult
    /\ timer = "none"
    /\ elapsed = 0
    /\ mon = "none"
    /\ rpos = 0
    /\ warnings = <<>>
    /\ launches = 0
    /\ launchChild = 0
    /\ outcome = NoResult
    /\ kill_result = NoResult
    /\ raised = FALSE
    /\ sent = <<>>
    /\ killSent = {}
    /\ everReady = FALSE
    /\ built = <<>>

(***************************************************************************)
(* Builder methods.                                                        *)
(***************************************************************************)
SetCompletionPercent(p, maxLaunches) ==
    /\ pc = "idle"
    /\ launches < maxLaunches
    /\ completion_percent' = p
    /\ UNCHANGED <<tor_cmd, args, torrc_path, timeout, stdout, process, osVars,
                   launchVars, monVars, seenVars, histVars>>

SetTimeout(t, maxLaunches) ==
    /\ pc = "idle"
    /\ launches < maxLaunches
    /\ timeout' = t
    /\ UNCHANGED <<tor_cmd, args, torrc_path, completion_percent, stdout, process,
                   osVars, launchVars, monVars, seenVars, histVars>>

\* (a kill that brings a dead child back)
ChildKilled_Toggles(ch, c) ==
    [ch EXCEPT ![c] = IF @ = "running" THEN "killed" ELSE "running"]

\* a builder call as recorded in `built`
BuilderCall(op, str, list) == [op |-> op, str |-> str, list |-> list]

\* tor_cmd(): self.tor_cmd = tor_cmd.to_string()
SetTorCmd(c, maxCalls) ==
    /\ pc = "idle"
    /\ Len(built) < maxCalls
    /\ tor_cmd' = c
    /\ built' = Append(built, BuilderCall("tor_cmd", c, <<>>))
    /\ UNCHANGED <<args, torrc_path, completion_percent, timeout, stdout, process,
                   osVars, launchVars, monVars, seenVars, sent, killSent, everReady>>

\* torrc_path(): self.torrc_path = Some(torrc_path.to_string())
SetTorrcPath(p, maxCalls) ==
    /\ pc = "idle"
    /\ Len(built) < maxCalls
    /\ torrc_path' = [some |-> TRUE, val |-> p]
    /\ built' = Append(built, BuilderCall("torrc_path", p, <<>>))
    /\ UNCHANGED <<tor_cmd, args, completion_percent, timeout, stdout, process,
                   osVars, launchVars, monVars, seenVars, sent, killSent, everReady>>

\* (a push at the front of the vector)
ArgPushed_Front(as, a) == <<a>> \o as

\* self.args.push(arg)
ArgPushed(as, a) == Append(as, a)

\* arg()
Arg(a, maxCalls) ==
    /\ pc = "idle"
    /\ Len(built) < maxCalls
    /\ args' = ArgPushed(args, a)
    /\ built' = Append(built, BuilderCall("arg", "", <<a>>))
    /\ UNCHANGED <<tor_cmd, torrc_path, completion_percent, timeout, stdout, process,
                   osVars, launchVars, monVars, seenVars, sent, killSent, everReady>>

\* for arg in args { self.arg(arg); }
RECURSIVE ArgsPushed(_, _)
ArgsPushed(as, v) ==
    IF v = <<>> THEN as ELSE ArgsPushed(ArgPushed(as, Head(v)), Tail(v))

\* args()
Args(v, maxCalls) ==
    /\ pc = "idle"
    /\ Len(built) < maxCalls
    /\ args' = ArgsPushed(args, v)
    /\ built' = Append(built, BuilderCall("args", "", v))
    /\ UNCHANGED <<tor_cmd, torrc_path, completion_percent, timeout, stdout, process,
                   osVars, launchVars, monVars, seenVars, sent, killSent, everReady>>

(***************************************************************************)
(* process.kill(): SIGKILL to the child.  A running child dies; on a child *)
(* that is already gone the call may succeed or fail with an io::Error.    *)
(***************************************************************************)
ChildKilled(ch, c) ==
    IF ch[c] = "running" THEN [ch EXCEPT ![c] = "killed"] ELSE ch

PrimitiveKillResults(ch, c) ==
    IF ch[c] = "running" THEN {OkReader} ELSE {OkReader, ErrProcess}

\* (a kill that does not look at the process field)
KillReturn_Unchecked(proc, r) ==
    IF r.kind = "Ok" THEN OkReader ELSE ErrProcess

\* TorProcess::kill: the value returned, r being what process.kill() gave
KillReturn(proc, r) ==
    IF proc # 0
    THEN IF r.kind = "Ok" THEN OkReader ELSE ErrProcess
    ELSE ErrProcessNotStarted

\* (a kill that is not carried out)
KillEffect_Skipped(ch, proc) == ch

\* TorProcess::kill: the children afterwards
KillEffect(ch, proc) == IF proc # 0 THEN ChildKilled(ch, proc) ELSE ch

KillRequested(ks, proc) == IF proc # 0 THEN ks \cup {proc} ELSE ks

\* (unwrap() in the place of unwrap_or(()))
Unwrap_Raises(r) == r.kind # "Ok"

\* result.unwrap_or(()): TRUE when the error escapes (never)
UnwrapOrUnitRaises(r) == FALSE

(***************************************************************************)
(* launch()                                                                *)
(***************************************************************************)
\* (the extra arguments ahead of the configuration file)
CommandArgs_PathLast(torrc, as) ==
    as \o (IF torrc.some THEN <<"-f", torrc.val>> ELSE <<>>)

\* the arguments given to Command: "-f" and the path when torrc_path is set,
\* then self.args
CommandArgs(torrc, as) ==
    (IF torrc.some THEN <<"-f", torrc.val>> ELSE <<>>) \o as

\* spawn() fails: launch returns Err(Error::Process) through `?`
Launch_SpawnFails(maxLaunches) ==
    /\ pc = "idle"
    /\ launches < maxLaunches
    /\ launches' = launches + 1
    /\ argv' = CommandArgs(torrc_path, args)
    /\ launchChild' = 0
    /\ outcome' = ErrProcess
    /\ emitted' = <<>>
    /\ rpos' = 0
    /\ kill_result' = NoResult
    /\ UNCHANGED <<cfgVars, stdout, process, child, launchVars, mon, warnings,
                   raised, histVars>>

\* spawn() succeeds: the child is stored in self.process, the channel is
\* created, the timer is scheduled self.timeout seconds ahead, the worker
\* thread starts, and the caller blocks in recv()
Launch_Spawn(maxLaunches) ==
    /\ pc = "idle"
    /\ launches < maxLaunches
    /\ LET c == launches + 1
       IN  /\ child' = [child EXCEPT ![c] = "running"]
           /\ process' = c
           /\ launchChild' = c
    /\ launches' = launches + 1
    /\ argv' = CommandArgs(torrc_path, args)
    /\ emitted' = <<>>
    /\ chan' = <<>>
    /\ sent' = <<>>
    /\ received' = NoResult
    /\ timer' = "armed"
    /\ elapsed' = 0
    /\ mon' = "reading"
    /\ rpos' = 0
    /\ warnings' = <<>>
    /\ outcome' = NoResult
    /\ pc' = "recv"
    /\ kill_result' = NoResult
    /\ UNCHANGED <<cfgVars, stdout, raised, killSent, everReady, built>>

\* which end of the match the received value takes
RecvBranch(msg) == IF msg.kind = "Ok" THEN "ok" ELSE "kill"

\* (the newest value in the place of the oldest)
RecvPick_Last(q) == q[Len(q)]

\* the value recv() takes from the channel
RecvPick(q) == Head(q)

\* stdout_rx.recv().unwrap(): blocks until the channel holds a value
Launch_Recv ==
    /\ pc = "recv"
    /\ chan # <<>>
    /\ received' = RecvPick(chan)
    /\ chan' = Tail(chan)
    /\ pc' = RecvBranch(RecvPick(chan))
    /\ UNCHANGED <<cfgVars, stdout, process, osVars, timer, elapsed, monVars,
                   seenVars, histVars>>

\* (the reader dropped)
StdoutAfterOk_Dropped(c) == NoReader

\* the field self.stdout after the Ok arm
StdoutAfterOk(c) == Reader(c)

\* (a join that does not wait)
JoinReady_NoWait(m) == TRUE

\* stdout_thread.join() returns once the worker has finished or panicked
JoinReady(m) == m \in {"done", "panicked"}

\* the worker after launch: a worker that finished has been joined
WorkerAfterJoin(m) == IF m \in {"done", "panicked"} THEN "joined" ELSE m

\* the locals of launch go out of scope when it returns or unwinds: the
\* timer guard (which cancels the schedule), the channel, the joined worker
LocalsDropped ==
    /\ timer' = "cancelled"
    /\ elapsed' = 0
    /\ chan' = <<>>
    /\ sent' = <<>>
    /\ received' = NoResult
    /\ mon' = WorkerAfterJoin(mon)
    /\ warnings' = <<>>

\* Ok(stdout): join the worker, keep the reader, return Ok(self)
Launch_ReturnOk ==
    /\ pc = "ok"
    /\ JoinReady(mon)
    /\ stdout' = StdoutAfterOk(launchChild)
    /\ outcome' = received
    /\ everReady' = TRUE
    /\ pc' = "idle"
    /\ LocalsDropped
    /\ UNCHANGED <<cfgVars, process, osVars, rpos, launches, launchChild,
                   kill_result, raised, killSent, built>>

\* Err(err): self.kill().unwrap_or(())
Launch_Kill ==
    /\ pc = "kill"
    /\ child' = KillEffect(child, process)
    /\ killSent' = KillRequested(killSent, process)
    /\ pc' = "join"
    /\ UNCHANGED <<cfgVars, stdout, process, argv, emitted, chan, received, timer,
                   elapsed, monVars, seenVars, sent, everReady, built>>

\* what launch does once the worker is joined: join() gives Err when the
\* worker panicked, and unwrap() then panics in launch
JoinBranch(m) == IF m = "panicked" THEN "panicked" ELSE "idle"

\* stdout_thread.join().unwrap(), then Err(err)
Launch_Join ==
    /\ pc = "join"
    /\ JoinReady(mon)
    /\ pc' = JoinBranch(mon)
    /\ outcome' = IF JoinBranch(mon) = "idle" THEN received ELSE outcome
    /\ LocalsDropped
    /\ UNCHANGED <<cfgVars, stdout, process, osVars, rpos, launches, launchChild,
                   kill_result, raised, killSent, everReady, built>>

InLaunch == pc \in {"recv", "ok", "kill", "join"}

(***************************************************************************)
(* The timer thread.                                                       *)
(***************************************************************************)
\* the schedule is due once self.timeout seconds have passed
TimerDue(el, t) == el >= t

\* a second passes
Timer_Tick ==
    /\ timer = "armed"
    /\ ~TimerDue(elapsed, timeout)
    /\ elapsed' = elapsed + 1
    /\ UNCHANGED <<cfgVars, stdout, process, osVars, pc, chan, received, timer,
                   monVars, seenVars, histVars>>

\* the callback: stdout_timeout_tx.send(Err(Error::Timeout))
Timer_Fire ==
    /\ timer = "armed"
    /\ TimerDue(elapsed, timeout)
    /\ chan' = Append(chan, ErrTimeout)
    /\ sent' = Append(sent, ErrTimeout)
    /\ timer' = "fired"
    /\ UNCHANGED <<cfgVars, stdout, process, osVars, pc, received, elapsed,
                   monVars, seenVars, killSent, everReady, built>>

(***************************************************************************)
(* The worker thread: stdout_tx.send(parse_tor_stdout(stdout, percent)).   *)
(***************************************************************************)
\* read_line returned a line
Mon_ReadLine ==
    /\ mon = "reading"
    /\ rpos < Len(emitted)
    /\ \E st \in {LineStep(Raw(emitted[rpos + 1]), completion_percent, warnings)} :
           /\ rpos' = rpos + 1
           /\ warnings' = st.warnings
           /\ mon' = CASE st.ctl = "continue" -> "reading"
                       [] st.ctl = "panic" -> "panicked"
                       [] OTHER -> "done"
           /\ IF st.ctl \in {"break", "return"}
              THEN /\ chan' = Append(chan, st.res)
                   /\ sent' = Append(sent, st.res)
              ELSE UNCHANGED <<chan, sent>>
    /\ UNCHANGED <<cfgVars, stdout, process, osVars, pc, received, timer, elapsed,
                   seenVars, killSent, everReady, built>>

\* the value parse_tor_stdout returns when read_line returns 0
EofResult == OkReader

\* read_line returned 0: every line written has been read and the write end
\* of the pipe is closed
Mon_Eof ==
    /\ mon = "reading"
    /\ rpos = Len(emitted)
    /\ child[launchChild] # "running"
    /\ mon' = "done"
    /\ chan' = Append(chan, EofResult)
    /\ sent' = Append(sent, EofResult)
    /\ UNCHANGED <<cfgVars, stdout, process, osVars, pc, received, timer, elapsed,
                   rpos, warnings, seenVars, killSent, everReady, built>>

\* read_line returned an io::Error (bytes that are not UTF-8)
Mon_ReadError ==
    /\ mon = "reading"
    /\ rpos < Len(emitted)
    /\ mon' = "done"
    /\ chan' = Append(chan, ErrProcess)
    /\ sent' = Append(sent, ErrProcess)
    /\ UNCHANGED <<cfgVars, stdout, process, osVars, pc, received, timer, elapsed,
                   rpos, warnings, seenVars, killSent, everReady, built>>

(***************************************************************************)
(* The children.                                                           *)
(***************************************************************************)
\* the child being launched writes a line to its stdout; lines written after
\* the worker stopped reading are left out, nothing in launch reads them
Child_Emit(l, maxLines) ==
    /\ mon = "reading"
    /\ child[launchChild] = "running"
    /\ Len(emitted) < maxLines
    /\ emitted' = Append(emitted, l)
    /\ UNCHANGED <<cfgVars, stdout, process, child, argv, launchVars, monVars,
                   seenVars, histVars>>

\* the child the supervisor holds exits by itself
Child_Exit(c) ==
    /\ c = process
    /\ child[c] = "running"
    /\ child' = [child EXCEPT ![c] = "exited"]
    /\ UNCHANGED <<cfgVars, stdout, process, argv, emitted, launchVars, monVars,
                   seenVars, histVars>>

(***************************************************************************)
(* kill() and drop(), called by the owner of the supervisor.               *)
(***************************************************************************)
Kill ==
    /\ pc = "idle"
    /\ \E r \in (IF process # 0 THEN PrimitiveKillResults(child, process) ELSE {OkReader}) :
          kill_result' = KillReturn(process, r)
    /\ child' = KillEffect(child, process)
    /\ killSent' = KillRequested(killSent, process)
    /\ UNCHANGED <<cfgVars, stdout, process, argv, emitted, launchVars, monVars,
                   launches, launchChild, outcome, raised, sent, everReady, built>>

\* Drop: self.kill().unwrap_or(()); also run when a panic in launch unwinds
\* through the owner
Drop ==
    /\ pc \in {"idle", "panicked"}
    /\ \E r \in (IF process # 0 THEN PrimitiveKillResults(child, process) ELSE {OkReader}) :
          raised' = UnwrapOrUnitRaises(KillReturn(process, r))
    /\ child' = KillEffect(child, process)
    /\ killSent' = KillRequested(killSent, process)
    /\ pc' = "dropped"
    /\ UNCHANGED <<cfgVars, stdout, process, argv, emitted, chan, received, timer,
                   elapsed, monVars, launches, launchChild, outcome, kill_result,
                   sent, everReady, built>>

\* the steps of launch() after the spawn, and of the threads and the child
LaunchSteps ==
    \/ Launch_Recv
    \/ Launch_ReturnOk
    \/ Launch_Kill
    \/ Launch_Join
    \/ Timer_Tick
    \/ Timer_Fire
    \/ Mon_ReadLine
    \/ Mon_Eof
    \/ Mon_ReadError
    \/ \E c \in ChildIds : Child_Exit(c)

(***************************************************************************)
(* SpecOnce: the supervisor used as documented, launch() called at most    *)
(* once (builder calls, launch, kill, drop).                               *)
(***************************************************************************)
NextOnce ==
    \/ \E p \in PercentChoices : SetCompletionPercent(p, 1)
    \/ \E t \in TimeoutChoices : SetTimeout(t, 1)
    \/ Launch_SpawnFails(1)
    \/ Launch_Spawn(1)
    \/ LaunchSteps
    \/ \E l \in RouterLines : Child_Emit(l, MaxLines)
    \/ Kill
    \/ Drop

SpecOnce == Init /\ [][NextOnce]_vars

\* the caller inside launch(), the worker thread and the timer thread are
\* scheduled, and time passes; the child and the read failure are not forced
CallerThread == Launch_Recv \/ Launch_ReturnOk \/ Launch_Kill \/ Launch_Join
TimerThread == Timer_Tick \/ Timer_Fire
WorkerThread == Mon_ReadLine \/ Mon_Eof

ThreadsRun ==
    /\ WF_vars(CallerThread)
    /\ WF_vars(TimerThread)
    /\ WF_vars(WorkerThread)

\* launch() called at most once on a child that writes few lines
NextOnceFew ==
    \/ \E p \in PercentChoices : SetCompletionPercent(p, 1)
    \/ \E t \in TimeoutChoices : SetTimeout(t, 1)
    \/ Launch_SpawnFails(1)
    \/ Launch_Spawn(1)
    \/ LaunchSteps
    \/ \E l \in RelaunchLines : Child_Emit(l, MaxRelaunchLines)
    \/ Kill
    \/ Drop

FairOnce == Init /\ [][NextOnceFew]_vars /\ ThreadsRun

(***************************************************************************)
(* SpecParse: one launch() with the default timeout on a child that stays  *)
(* alive and whose lines, any lines of the table, are in the pipe before   *)
(* the worker reads the first of them.                                     *)
(***************************************************************************)
Child_EmitAhead(l, maxLines) ==
    /\ rpos = 0
    /\ sent = <<>>
    /\ Child_Emit(l, maxLines)

NextParse ==
    \/ \E p \in ParsePercents : SetCompletionPercent(p, 1)
    \/ Launch_Spawn(1)
    \/ Launch_Recv
    \/ Launch_ReturnOk
    \/ Launch_Kill
    \/ Launch_Join
    \/ Timer_Fire
    \/ Mon_ReadLine
    \/ Mon_Eof
    \/ \E l \in ParseLines : Child_EmitAhead(l, MaxParseLines)

SpecParse == Init /\ [][NextParse]_vars

(***************************************************************************)
(* SpecBuild: any sequence of builder calls, each followed or not by a     *)
(* launch() up to the spawn, which fixes the argument vector.              *)
(***************************************************************************)
NextBuild ==
    \/ \E c \in CmdChoices : SetTorCmd(c, MaxBuilderCalls)
    \/ \E p \in PathChoices : SetTorrcPath(p, MaxBuilderCalls)
    \/ \E a \in ArgChoices : Arg(a, MaxBuilderCalls)
    \/ \E v \in ArgsChoices : Args(v, MaxBuilderCalls)
    \/ \E p \in PercentChoices : SetCompletionPercent(p, MaxLaunches)
    \/ \E t \in TimeoutChoices : SetTimeout(t, MaxLaunches)
    \/ Launch_SpawnFails(MaxLaunches)
    \/ Launch_Spawn(MaxLaunches)

SpecBuild == Init /\ [][NextBuild]_vars

(***************************************************************************)
(* Spec: any sequence of builder calls, launch, kill and drop, launch()    *)
(* being called again on a supervisor that was launched.                   *)
(***************************************************************************)
Next ==
    \/ \E p \in PercentChoices : SetCompletionPercent(p, MaxLaunches)
    \/ \E t \in TimeoutChoices : SetTimeout(t, MaxLaunches)
    \/ Launch_SpawnFails(MaxLaunches)
    \/ Launch_Spawn(MaxLaunches)
    \/ LaunchSteps
    \/ \E l \in RelaunchLines : Child_Emit(l, MaxRelaunchLines)
    \/ Kill
    \/ Drop

Spec == Init /\ [][Next]_vars

(***************************************************************************)
(* What the lines of LineTable are, read off the log format: the class of  *)
(* each line, the percent of a bootstrap notice, the body (the text after  *)
(* the timestamp and the separator, without the newline).                  *)
(***************************************************************************)
ExpectedKind == <<
    "Malformed", "Other", "Bootstrap", "Bootstrap", "Warning", "Warning", "Error",
    "Info", "BadBootstrap", "Bootstrap", "BadBootstrap", "Malformed", "Other",
    "BadBootstrap", "Other", "BadBootstrap" >>

ExpectedPercent == <<0, 0, 50, 100, 0, 0, 0, 0, 0, 0, 0, 0, 0, 0, 0, 0>>

ExpectedBody == <<
    <<>>,
    <<>>,
    <<"[","n","o","t","i","c","e","]"," ","B","o","o","t","s","t","r","a","p","p","e","d",
      " ","5","0","%",":"," ","L">>,
    <<"[","n","o","t","i","c","e","]"," ","B","o","o","t","s","t","r","a","p","p","e","d",
      " ","1","0","0","%",":"," ","D">>,
    <<"[","w","a","r","n","]"," ","a">>,
    <<"[","w","a","r","n","]"," ","b">>,
    <<"[","e","r","r","]"," ","x">>,
    <<"[","n","o","t","i","c","e","]"," ","O","p","e","n","i","n","g">>,
    <<"[","n","o","t","i","c","e","]"," ","B","o","o","t","s","t","r","a","p","p","e","d",
      " ","X","X","%",":"," ","B">>,
    <<"[","n","o","t","i","c","e","]"," ","B","o","o","t","s","t","r","a","p","p","e","d",
      " ","0","%",":"," ","S">>,
    <<"[","n","o","t","i","c","e","]"," ","B","o","o","t","s","t","r","a","p","p","e","d",
      " ","2","5","6","%",":"," ","O">>,
    <<>>,
    <<>>,
    <<"[","n","o","t","i","c","e","]"," ","B","o","o","t","s","t","r","a","p","p","e","d",
      " ","5","0","%",":">>,
    <<"x">>,
    <<"[","n","o","t","i","c","e","]"," ","B","o","o","t","s","t","r","a","p","p","e","d",
      " ","%",":"," ","M">> >>

\* a bootstrap notice whose percent is at least the target
ReachingNotice(id, target) ==
    ExpectedKind[id] = "Bootstrap" /\ ExpectedPercent[id] >= target

\* a line the monitor is to pass over: long enough for the body slice, and
\* an info, other or warning line or a bootstrap notice below the target
PassedOver(id, target) ==
    /\ Len(Raw(id)) >= timestamp_len + 2
    /\ \/ ExpectedKind[id] \in {"Info", "Other", "Warning"}
       \/ ExpectedKind[id] = "Bootstrap" /\ ExpectedPercent[id] < target

\* the bodies of the [warn] lines among the first n lines of em, in order
RECURSIVE WarnBodies(_, _)
WarnBodies(em, n) ==
    IF n = 0 THEN <<>>
    ELSE WarnBodies(em, n - 1) \o
         (IF ExpectedKind[em[n]] = "Warning" THEN <<ExpectedBody[em[n]]>> ELSE <<>>)

\* launch() has returned an error
LaunchFailed == outcome.kind \notin {"none", "Ok"}
\* launch() has returned Ok
LaunchReady == outcome.kind = "Ok"

(***************************************************************************)
(* C1.  When launch returns a failure (Process, Tor, InvalidLogLine,       *)
(* InvalidBootstrapLine, Timeout), the child of that launch is not         *)
(* running: either the spawn failed and there is no child at all, or the   *)
(* supervisor has requested its kill and it is dead.                       *)
(***************************************************************************)
C1_FailedLaunchLeavesNoChild ==
    LaunchFailed =>
        IF launchChild = 0
        THEN process = 0 /\ \A c \in ChildIds : child[c] = "unborn"
        ELSE /\ process = launchChild
             /\ child[launchChild] # "running"
             /\ launchChild \in killSent

\* launch returned the router's error and the child it spawned is killed
C1_Witness ==
    /\ pc = "idle"
    /\ outcome.kind = "Tor"
    /\ child[launchChild] = "killed"

(***************************************************************************)
(* C2.  launch returns Ok only if the last line the monitor read is a      *)
(* bootstrap notice whose percent is at least the target.                  *)
(***************************************************************************)
C2_ReadyOnlyAfterBootstrap ==
    LaunchReady => rpos >= 1 /\ ReachingNotice(emitted[rpos], completion_percent)

\* the lines written end in a bootstrap notice reaching the target
EndsInReachingNotice ==
    emitted # <<>> /\ ReachingNotice(emitted[Len(emitted)], completion_percent)

\* line k is the first line that is not passed over
FirstStop(k) ==
    /\ k \in 1..Len(emitted)
    /\ \A j \in 1..(k - 1) : PassedOver(emitted[j], completion_percent)

\* launch has returned what the monitor sent: neither the timer's Timeout
\* nor a failure to spawn or to read
MonitorDecided == outcome.kind \notin {"none", "Timeout", "Process"}

(***************************************************************************)
(* C3, as stated (the deadline and read failures left aside): whenever the *)
(* lines written end in a bootstrap notice reaching the target and launch  *)
(* has returned what the monitor sent, it has returned Ok and the reader   *)
(* stands right after that last line.                                      *)
(***************************************************************************)
C3_AnySequenceEndingInNotice ==
    (MonitorDecided /\ EndsInReachingNotice) =>
        LaunchReady /\ rpos = Len(emitted)

(***************************************************************************)
(* C3, amended: when line k is a bootstrap notice reaching the target,     *)
(* every line before it is passed over, and launch has returned what the   *)
(* monitor sent, then launch has returned Ok, the reader kept in the       *)
(* stdout field is the launched child's, and the monitor has read k lines: *)
(* that notice and nothing after it.                                       *)
(***************************************************************************)
C3_ReadyRightAfterNotice ==
    \A k \in 1..Len(emitted) :
        ( /\ MonitorDecided
          /\ FirstStop(k)
          /\ ReachingNotice(emitted[k], completion_percent) )
        => /\ LaunchReady
           /\ stdout = Reader(launchChild)
           /\ rpos = k

\* Ok after a notice below the target and one reaching it, a further line
\* being left unread
C3_Witness ==
    /\ LaunchReady
    /\ completion_percent = 100
    /\ emitted = <<3, 4, 7>>
    /\ rpos = 2
    /\ stdout.some

(***************************************************************************)
(* C4, as stated (the deadline and read failures left aside): whenever the *)
(* lines written hold an [err] line with no bootstrap notice reaching the  *)
(* target before it and launch has returned what the monitor sent, it has  *)
(* returned the Tor error with that line's body and the bodies of the      *)
(* [warn] lines before it.                                                 *)
(***************************************************************************)
C4_AnySequenceWithErr ==
    \A k \in 1..Len(emitted) :
        ( /\ MonitorDecided
          /\ ExpectedKind[emitted[k]] = "Error"
          /\ \A j \in 1..(k - 1) :
                /\ ~ReachingNotice(emitted[j], completion_percent)
                /\ ExpectedKind[emitted[j]] # "Error" )
        => outcome = ErrTor(ExpectedBody[emitted[k]], WarnBodies(emitted, k - 1))

(***************************************************************************)
(* C4, amended: when line k is an [err] line, every line before it is      *)
(* passed over, and launch has returned what the monitor sent, then launch *)
(* has returned the Tor error carrying the body of line k and exactly the  *)
(* bodies of the [warn] lines before k, in order; and the monitor has read *)
(* k lines.                                                                *)
(***************************************************************************)
C4_TorErrorCarriesWarnings ==
    \A k \in 1..Len(emitted) :
        ( /\ MonitorDecided
          /\ FirstStop(k)
          /\ ExpectedKind[emitted[k]] = "Error" )
        => /\ outcome = ErrTor(ExpectedBody[emitted[k]], WarnBodies(emitted, k - 1))
           /\ rpos = k

\* the Tor error after two different warnings
C4_Witness ==
    /\ emitted = <<6, 5, 7>>
    /\ outcome = ErrTor(ExpectedBody[7], <<ExpectedBody[6], ExpectedBody[5]>>)
    /\ pc = "idle"

C6_ZeroTimeoutNeverTimesOut ==
    timeout = 0 => outcome # ErrTimeout

(***************************************************************************)
(* C7.  launch returns the first value sent on the channel: recv() takes   *)
(* it, a value sent after it changes neither what was received nor the     *)
(* process and stdout fields, the return value is the value received, and  *)
(* nothing is sent once launch has returned.                               *)
(***************************************************************************)
C7_FirstResultWins ==
    [][ /\ (received # NoResult /\ InLaunch) => received = sent[1]
        /\ (Len(sent) >= 1 /\ sent' # sent /\ InLaunch') =>
              /\ received' = received
              /\ stdout' = stdout
              /\ process' = process
              /\ sent'[1] = sent[1]
        /\ (InLaunch /\ pc' = "idle") => outcome' = sent[1]
        /\ (~InLaunch /\ launches' = launches) =>
              sent' = sent /\ outcome' = outcome
      ]_vars

\* the monitor's Ok was received and the timer's Timeout came second
C7_Witness ==
    /\ pc = "ok"
    /\ received = OkReader
    /\ sent = <<OkReader, ErrTimeout>>

(***************************************************************************)
(* C8.  With timeout > 0, once the timer has sent Timeout as the first     *)
(* value while the child has written nothing, launch eventually returns    *)
(* Timeout with the child's kill requested and the child not running,      *)
(* as long as the child stays silent.                                      *)
(***************************************************************************)
SilentDeadline ==
    /\ timeout > 0
    /\ InLaunch
    /\ sent # <<>>
    /\ sent[1] = ErrTimeout
    /\ emitted = <<>>

TimedOutAndKilled ==
    /\ pc = "idle"
    /\ outcome = ErrTimeout
    /\ launchChild \in killSent
    /\ child[launchChild] # "running"

C8_SilentRouterTimesOut ==
    SilentDeadline ~> (TimedOutAndKilled \/ emitted # <<>>)

\* launch has returned Timeout on a child that wrote nothing and was killed
C8_Witness ==
    /\ timeout > 0
    /\ emitted = <<>>
    /\ TimedOutAndKilled
    /\ child[launchChild] = "killed"

(***************************************************************************)
(* C9.  After drop: no error has escaped; when the supervisor holds a      *)
(* child, its kill has been requested and it is not running; when it holds *)
(* none, no kill was ever requested and no child exists.                   *)
(***************************************************************************)
C9_DropKillsAndNeverRaises ==
    pc = "dropped" =>
        /\ ~raised
        /\ IF process # 0
           THEN process \in killSent /\ child[process] # "running"
           ELSE killSent = {} /\ \A c \in ChildIds : child[c] = "unborn"

\* a supervisor whose launch returned Ok was dropped and its child killed
C9_Witness ==
    /\ pc = "dropped"
    /\ everReady
    /\ process # 0
    /\ child[process] = "killed"

(***************************************************************************)
(* C10.  After drop, no child the supervisor spawned is running.           *)
(***************************************************************************)
C10_NoChildOutlivesSupervisor ==
    pc = "dropped" => \A c \in ChildIds : child[c] # "running"

(***************************************************************************)
(* C11.  A call of kill on a supervisor whose process field is empty       *)
(* (never launched, or every launch failed at spawn) returns               *)
(* ProcessNotStarted and changes no field of the supervisor and no child;  *)
(* a call of kill on a supervisor holding a child returns Ok or Process,   *)
(* never ProcessNotStarted.                                                *)
(***************************************************************************)
C11_KillWithoutChildIsNotStarted ==
    [][ Kill =>
          IF process = 0
          THEN /\ kill_result' = ErrProcessNotStarted
               /\ UNCHANGED <<cfgVars, stdout, process, child>>
               /\ \A c \in ChildIds : child[c] = "unborn"
          ELSE kill_result' \in {OkReader, ErrProcess}
      ]_vars

\* kill has returned ProcessNotStarted after a launch that failed at spawn
C11_Witness ==
    /\ launches = 1
    /\ outcome = ErrProcess
    /\ process = 0
    /\ kill_result = ErrProcessNotStarted

\* the supervisor has already had the child it holds killed
AlreadyKilled == process # 0 /\ process \in killSent

(***************************************************************************)
(* C12.  Once the supervisor has killed the child it holds, the child is   *)
(* not running, and every further call of kill leaves it not running,      *)
(* leaves every child as it was, and leaves the configuration, the process *)
(* field and the stdout field unchanged.                                   *)
(***************************************************************************)
C12_KillIsIdempotent ==
    [][ /\ AlreadyKilled => child[process] # "running"
        /\ (AlreadyKilled /\ Kill) =>
              /\ child'[process'] # "running"
              /\ child' = child
              /\ UNCHANGED <<cfgVars, stdout, process>>
      ]_vars

\* launch killed the child on its Timeout path, and kill was called again
\* after it returned
C12_Witness ==
    /\ pc = "idle"
    /\ outcome = ErrTimeout
    /\ AlreadyKilled
    /\ child[process] = "killed"
    /\ kill_result \in {OkReader, ErrProcess}

\* the caller has received the first value sent on the channel
RaceResolved == InLaunch /\ received # NoResult

(***************************************************************************)
(* C13.  With a deadline configured (timeout > 0): once the caller has     *)
(* received the first value from the channel, and after launch has         *)
(* returned, no Timeout is sent on the channel.                            *)
(***************************************************************************)
C13_NoTimeoutAfterRaceResolved ==
    [][ (timeout > 0 /\ (RaceResolved \/ ~InLaunch)) =>
            ~(Len(sent') > Len(sent) /\ sent'[Len(sent')] = ErrTimeout)
      ]_vars

\* the last call of launch spawned a child and has returned
LaunchReturned == pc = "idle" /\ launchChild # 0 /\ outcome # NoResult

(***************************************************************************)
(* C14.  Whenever launch has returned after spawning a child, with Ok or   *)
(* with an error, the worker thread has finished and has been joined: it   *)
(* is not reading, and no step of it is left to take.                      *)
(***************************************************************************)
C14_WorkerJoinedAtReturn ==
    LaunchReturned =>
        /\ mon = "joined"
        /\ ~ENABLED (Mon_ReadLine \/ Mon_Eof \/ Mon_ReadError)

\* launch has returned Timeout: the worker, which had read nothing, was
\* waited for until the kill closed the pipe
C14_Witness ==
    /\ LaunchReturned
    /\ outcome = ErrTimeout
    /\ rpos = 0
    /\ mon = "joined"

(***************************************************************************)
(* C15.  At the step in which launch returns Ok, the process and stdout    *)
(* fields are populated, the supervisor has requested no kill of the child *)
(* it holds, and that child is running.                                    *)
(***************************************************************************)
C15_ReadyMeansRunning ==
    [][ (pc = "ok" /\ pc' = "idle") =>
            /\ process' # 0
            /\ stdout'.some
            /\ process' \notin killSent'
            /\ child'[process'] = "running"
      ]_vars

\* the values sent on the channel so far
SentValues == {sent[i] : i \in 1..Len(sent)}

(***************************************************************************)
(* C16.  When line k is the first bootstrap notice whose percent is at     *)
(* least the target and the lines before it are passed over (notices       *)
(* below the target among them, in any order of percents), the monitor     *)
(* sends nothing of its own before it has read line k; once it has read    *)
(* line k it has stopped there with Ok, whatever lines follow, and a       *)
(* launch that returns what the monitor sent returns Ok.  With target 0    *)
(* this is the first bootstrap notice, a 0% one included.                  *)
(***************************************************************************)
C16_FirstReachingNoticeWins ==
    \A k \in 1..Len(emitted) :
        ( /\ FirstStop(k)
          /\ ReachingNotice(emitted[k], completion_percent) )
        => /\ rpos <= k
           /\ (rpos < k /\ InLaunch) =>
                 /\ SentValues \subseteq {ErrTimeout, EofResult}
                 /\ mon = "done" => launchChild \in killSent
           /\ (rpos = k /\ InLaunch) =>
                 /\ mon = "done"
                 /\ OkReader \in SentValues
                 /\ SentValues \subseteq {ErrTimeout, OkReader}
           /\ MonitorDecided => LaunchReady /\ rpos = k /\ stdout.some

\* with target 0 launch returned Ok at a 0% notice, an [err] line and a
\* short line after it being left unread
C16_Witness ==
    /\ completion_percent = 0
    /\ emitted = <<10, 7, 1>>
    /\ LaunchReady
    /\ rpos = 1

\* a line shorter than the 19-character timestamp plus one, newline included
ShorterThanPrefixPlusOne(id) == Len(Raw(id)) < Len(TimestampSample) + 1

\* line k is the first short line among the lines written
FirstShort(k) ==
    /\ k \in 1..Len(emitted)
    /\ ShorterThanPrefixPlusOne(emitted[k])
    /\ \A j \in 1..(k - 1) : ~ShorterThanPrefixPlusOne(emitted[j])

(***************************************************************************)
(* C17.  When the monitor has read the first short line, line k, it has    *)
(* stopped there and sent InvalidLogLine, whatever lines it read before;   *)
(* a launch that returns what the monitor sent then returns                *)
(* InvalidLogLine with the child's kill requested and the child not        *)
(* running.  As long as the monitor has read only lines that are long      *)
(* enough, InvalidLogLine is neither sent nor returned.                    *)
(***************************************************************************)
C17_ShortLineIsInvalidLogLine ==
    /\ \A k \in 1..Len(emitted) :
          (FirstShort(k) /\ rpos >= k) =>
              /\ rpos = k
              /\ InLaunch => mon = "done" /\ ErrInvalidLogLine \in SentValues
              /\ MonitorDecided =>
                    /\ outcome = ErrInvalidLogLine
                    /\ launchChild \in killSent
                    /\ child[launchChild] # "running"
    /\ (\A j \in 1..rpos : ~ShorterThanPrefixPlusOne(emitted[j])) =>
          /\ ErrInvalidLogLine \notin SentValues
          /\ outcome # ErrInvalidLogLine

\* launch returned InvalidLogLine for "hi" read after a warning and an info
\* line, and the child is killed
C17_Witness ==
    /\ emitted = <<5, 8, 1>>
    /\ rpos = 3
    /\ outcome = ErrInvalidLogLine
    /\ child[launchChild] = "killed"

\* a line "[notice] Bootstrapped ..." whose percent is missing or is not
\* an integer
BadPercentNotice(id) == id \in {9, 16}

\* a [notice] line that is not a bootstrap notice
InfoLine(id) == ExpectedKind[id] = "Info"

\* the monitor has read a notice with a bad percent, line k: it has stopped
\* there with InvalidBootstrapLine carrying the body of that line, and a
\* launch that returns what the monitor sent returns it, the child killed
BadPercentStopsMonitor ==
    \A k \in 1..Len(emitted) :
        (rpos >= k /\ BadPercentNotice(emitted[k])) =>
            /\ rpos = k
            /\ InLaunch =>
                  /\ mon = "done"
                  /\ ErrInvalidBootstrapLine(ExpectedBody[emitted[k]]) \in SentValues
            /\ MonitorDecided =>
                  /\ outcome = ErrInvalidBootstrapLine(ExpectedBody[emitted[k]])
                  /\ launchChild \in killSent
                  /\ child[launchChild] # "running"

(***************************************************************************)
(* C18.  A line "[notice] Bootstrapped ..." whose percent is missing or    *)
(* not an integer stops the monitor with InvalidBootstrapLine carrying     *)
(* that line's body, launch returns it (when it returns what the monitor   *)
(* sent) and the child is killed; reading a [notice] line that is not a    *)
(* bootstrap notice sends nothing, changes no warning and leaves the       *)
(* monitor reading.                                                        *)
(***************************************************************************)
C18_BadPercentIsInvalidBootstrapLine ==
    [][ /\ BadPercentStopsMonitor'
        /\ (rpos' = rpos + 1 /\ InfoLine(emitted[rpos'])) =>
              /\ mon' = "reading"
              /\ sent' = sent
              /\ warnings' = warnings
      ]_vars

\* launch returned InvalidBootstrapLine for the notice without a percent,
\* read after an info line, and the child is killed
C18_Witness ==
    /\ emitted = <<8, 16>>
    /\ rpos = 2
    /\ outcome = ErrInvalidBootstrapLine(ExpectedBody[16])
    /\ child[launchChild] = "killed"

(***************************************************************************)
(* C20.  The worker never aborts on a line of 20 characters or more: after *)
(* reading such a line it has not panicked, and launch does not panic.     *)
(***************************************************************************)
C20_LongEnoughLinesNeverAbort ==
    (rpos >= 1 /\ Len(Raw(emitted[rpos])) >= Len(TimestampSample) + 1) =>
        mon # "panicked" /\ pc # "panicked"

\* the path of the last torrc_path call among the first n calls of b
RECURSIVE LastPathSet(_, _)
LastPathSet(b, n) ==
    IF n = 0 THEN <<>>
    ELSE IF b[n].op = "torrc_path" THEN <<b[n].str>> ELSE LastPathSet(b, n - 1)

\* the arguments of the arg and args calls among the first n calls of b, in
\* the order of the calls
RECURSIVE ExtraArgs(_, _)
ExtraArgs(b, n) ==
    IF n = 0 THEN <<>>
    ELSE ExtraArgs(b, n - 1) \o (IF b[n].op \in {"arg", "args"} THEN b[n].list ELSE <<>>)

\* the argument vector the calls b are to give
ExpectedArgv(b) ==
    (IF LastPathSet(b, Len(b)) = <<>> THEN <<>> ELSE <<"-f">> \o LastPathSet(b, Len(b)))
        \o ExtraArgs(b, Len(b))

\* the configuration fields by name
CfgField(f) ==
    CASE f = "tor_cmd" -> tor_cmd
      [] f = "torrc_path" -> torrc_path
      [] f = "args" -> args
      [] f = "completion_percent" -> completion_percent
      [] f = "timeout" -> timeout

CfgFieldNames == {"tor_cmd", "torrc_path", "args", "completion_percent", "timeout"}

\* the field a recorded builder call is about
FieldOfCall(op) == IF op \in {"arg", "args"} THEN "args" ELSE op

(***************************************************************************)
(* C19.  At every spawn the argument vector is "-f" and the last path set, *)
(* exactly when torrc_path was called, followed by the arguments of all    *)
(* arg and args calls in the order of the calls.  A call of tor_cmd,       *)
(* torrc_path, arg or args changes only its own field, a step changing     *)
(* completion_percent or timeout changes no other configuration field, and *)
(* no builder call touches the process and stdout fields.                  *)
(***************************************************************************)
C19_ArgvFollowsBuilderCalls ==
    [][ /\ launches' = launches + 1 => argv' = ExpectedArgv(built)
        /\ built' # built =>
              /\ \A f \in CfgFieldNames \ {FieldOfCall(built'[Len(built')].op)} :
                    CfgField(f)' = CfgField(f)
              /\ UNCHANGED <<stdout, process, argv>>
        /\ \A f \in {"completion_percent", "timeout"} :
              CfgField(f)' # CfgField(f) =>
                  /\ \A g \in CfgFieldNames \ {f} : CfgField(g)' = CfgField(g)
                  /\ UNCHANGED <<stdout, process, argv>>
      ]_vars

\* a spawn after torrc_path, args and torrc_path again: the second path,
\* ahead of the arguments
C19_Witness ==
    /\ launches = 1
    /\ Len(built) = 3
    /\ built[1].op = "torrc_path" /\ built[1].str = "a.rc"
    /\ built[2].op = "args" /\ built[2].list = <<"y", "x">>
    /\ built[3].op = "torrc_path" /\ built[3].str = "b.rc"
    /\ argv = <<"-f", "b.rc", "y", "x">>

====
